---- MODULE Spec2Model ----
(***************************************************************************)
(* IPLM hierarchical data model: the materialized-path classification tree *)
(* (Type), the adjacency-list entity hierarchy (IP) and the lifecycle      *)
(* operations of IPManager, over a relational store reached through the    *)
(* storage gateway (db_manager).                                           *)
(*                                                                         *)
(* Strings are sequences of one-character strings, so that path            *)
(* concatenation, SQL LIKE matching and ORDER BY are computed character by *)
(* character.  SQL NULL and Python None identifiers are the number 0 (rows *)
(* get identifiers from 1 upwards).  A Python Optional object is a         *)
(* sequence of length 0 (None) or 1.                                       *)
(***************************************************************************)
EXTENDS Integers, Sequences, FiniteSets, TLC

\* ------------------------------------------------------------------ bounds

\* Identifiers the types table may hand out (AUTO_INCREMENT never reuses one).
MaxTypeId == 3

\* A gateway call of one operation is numbered from 1; the call numbered
\* failAt raises (0: none does).
MaxFailAt == 4

\* Identifiers the ips table may hand out.
MaxIpId == 4

\* Writing operations (save, delete) one run of the model makes.
MaxOps == 4

\* Longest path the model follows (three one-character segments); an
\* operation that would store a longer one is not taken.
MaxPathLen == 5

\* None / SQL NULL for identifiers.
NULL == 0

\* Type names the callers use; "_" is an SQL LIKE wildcard character.
Names == {<<"a">>, <<"_">>}

\* IP names the callers use.
IPNames == {<<"a">>, <<"b">>}

\* config.settings.IP_STATUSES
IP_STATUSES == {"alpha", "beta", "production", "obsolete"}

\* config.settings.DEFAULT_STATUS
DEFAULT_STATUS == "alpha"

\* Status values the callers pass: valid ones and one that is not.
StatusInputs == {"beta", "bogus"}


VARIABLES
    types,        \* the types table: id -> row
    nextTypeId,   \* the table's AUTO_INCREMENT counter
    tlast,        \* the last Type operation, its arguments and what it returned
    ips,          \* the ips table: id -> row
    nextIpId,     \* the table's AUTO_INCREMENT counter
    ilast,        \* the last IP operation, its arguments and what it returned
    ops,          \* writing operations made so far
    faults        \* whether the storage gateway may raise in this run

typeVars == <<types, nextTypeId, tlast>>

ipVars == <<ips, nextIpId, ilast>>

vars == <<types, nextTypeId, tlast, ips, nextIpId, ilast, ops, faults>>

\* The gateway call of an operation that raises (0: none).
FailPoints == IF faults THEN 0..MaxFailAt ELSE {0}

\* Parent references a caller can hold for an IP.
IPParents == {NULL} \cup (1..(nextIpId - 1))

\* Parent references a caller can hold: none, or an identifier the table has
\* handed out (its row may have been deleted since).
TypeParents == {NULL} \cup (1..(nextTypeId - 1))

\* ------------------------------------------------------------ string order

\* Collation weight of a character (ORDER BY compares strings by it).
CharRank(c) ==
    CASE c = "%" -> 1
      [] c = "/" -> 2
      [] c = "_" -> 3
      [] c = "a" -> 4
      [] c = "b" -> 5
      [] OTHER -> 6

RECURSIVE StrLess(_, _)
\* s sorts strictly before t.
StrLess(s, t) ==
    IF t = <<>> THEN FALSE
    ELSE IF s = <<>> THEN TRUE
    ELSE IF Head(s) # Head(t) THEN CharRank(Head(s)) < CharRank(Head(t))
    ELSE StrLess(Tail(s), Tail(t))

RECURSIVE LikeMatch(_, _)
\* SQL  s LIKE p : "%" matches any run of characters, "_" any one character.
LikeMatch(p, s) ==
    IF p = <<>> THEN s = <<>>
    ELSE IF Head(p) = "%"
         THEN LikeMatch(Tail(p), s) \/ (s # <<>> /\ LikeMatch(p, Tail(s)))
    ELSE /\ s # <<>>
         /\ (Head(p) = "_" \/ Head(p) = Head(s))
         /\ LikeMatch(Tail(p), Tail(s))

\* s begins with the literal string p.
StartsWith(s, p) ==
    /\ Len(p) <= Len(s)
    /\ SubSeq(s, 1, Len(p)) = p

\* --------------------------------------------------------- storage gateway

\* The gateway as one operation sees it: the table, the AUTO_INCREMENT
\* counter, the calls made so far and the call that raises.
Gateway(failAt) ==
    [types |-> types, next |-> nextTypeId, calls |-> 0, failAt |-> failAt]

\* The next gateway call raises.
Fails(ctx) == ctx.calls + 1 = ctx.failAt

\* One gateway call made.
Tick(ctx) == [ctx EXCEPT !.calls = @ + 1]

\* A call of this operation raised.
Faulted(ctx) == ctx.failAt # 0 /\ ctx.failAt <= ctx.calls

TypeRows(ctx) == {ctx.types[i] : i \in DOMAIN ctx.types}

PathBefore(r, q) == StrLess(r.path, q.path) \/ (r.path = q.path /\ r.id < q.id)

NameBefore(r, q) == StrLess(r.name, q.name) \/ (r.name = q.name /\ r.id < q.id)

RECURSIVE OrderByPath(_)
\* ORDER BY path (rows of equal path in id order).
OrderByPath(S) ==
    IF S = {} THEN <<>>
    ELSE LET m == CHOOSE r \in S : \A q \in S \ {r} : PathBefore(r, q)
         IN <<m>> \o OrderByPath(S \ {m})

RECURSIVE OrderByName(_)
\* ORDER BY name (rows of equal name in id order).
OrderByName(S) ==
    IF S = {} THEN <<>>
    ELSE LET m == CHOOSE r \in S : \A q \in S \ {r} : NameBefore(r, q)
         IN <<m>> \o OrderByName(S \ {m})

\* ------------------------------------------------------------------- Type

\* [d.id for d in list]
IdsOf(list) == [i \in 1..Len(list) |-> list[i].id]

\* The elements of a list.
Range(list) == {list[i] : i \in 1..Len(list)}

\* Type(name, parent_id): an object not yet persisted.
NewType(name, parent) ==
    [id |-> NULL, name |-> name, parent_id |-> parent, path |-> <<>>, level |-> 0]

\* Type.find_by_id: None when no row has the id, and when the gateway raises.
TypeFindById(ctx, id) ==
    [ctx |-> Tick(ctx),
     val |-> IF Fails(ctx) \/ id \notin DOMAIN ctx.types
             THEN <<>> ELSE <<ctx.types[id]>>]

\* Type._update_path_and_level
UpdatePathAndLevel(ctx, obj) ==
    IF obj.parent_id # NULL
    THEN LET r == TypeFindById(ctx, obj.parent_id)
         IN [ctx |-> r.ctx,
             obj |-> IF r.val # <<>>
                     THEN [obj EXCEPT
                             !.path = IF r.val[1].path # <<>>
                                      THEN r.val[1].path \o <<"/">> \o obj.name
                                      ELSE obj.name,
                             !.level = r.val[1].level + 1]
                     ELSE [obj EXCEPT !.path = obj.name, !.level = 0]]
    ELSE [ctx |-> ctx, obj |-> [obj EXCEPT !.path = obj.name, !.level = 0]]

\* Type._parent_changed: compares the object with the row as it is stored now.
ParentChanged(ctx, obj) ==
    IF obj.id = NULL THEN [ctx |-> ctx, val |-> FALSE]
    ELSE LET r == TypeFindById(ctx, obj.id)
         IN [ctx |-> r.ctx,
             val |-> r.val # <<>> /\ r.val[1].parent_id # obj.parent_id]

\* Type.find_children
FindChildren(ctx, obj) ==
    IF obj.id = NULL THEN [ctx |-> ctx, val |-> <<>>]
    ELSE [ctx |-> Tick(ctx),
          val |-> IF Fails(ctx) THEN <<>>
                  ELSE OrderByName({r \in TypeRows(ctx) : r.parent_id = obj.id})]

\* Type.find_descendants: WHERE path LIKE '<self.path>/%' ORDER BY path
FindDescendants(ctx, obj) ==
    IF obj.id = NULL THEN [ctx |-> ctx, val |-> <<>>]
    ELSE [ctx |-> Tick(ctx),
          val |-> IF Fails(ctx) THEN <<>>
                  ELSE OrderByPath({r \in TypeRows(ctx) :
                                      LikeMatch(obj.path \o <<"/", "%">>, r.path)})]

RECURSIVE Split(_)
\* path.split('/')
Split(s) ==
    IF \A i \in 1..Len(s) : s[i] # "/" THEN <<s>>
    ELSE LET i == CHOOSE k \in 1..Len(s) :
                     s[k] = "/" /\ \A j \in 1..(k - 1) : s[j] # "/"
         IN <<SubSeq(s, 1, i - 1)>> \o Split(SubSeq(s, i + 1, Len(s)))

\* result[0] of a query without ORDER BY: any of the matching rows, the row
\* first when it is among them.
FirstRow(rows, first) ==
    IF \E r \in rows : r.id = first
    THEN CHOOSE r \in rows : r.id = first
    ELSE CHOOSE r \in rows : \A q \in rows : r.id <= q.id

RECURSIVE AncestorsLoop(_, _, _, _, _)
\* The for loop of Type.find_ancestors over path_parts[:-1]; a gateway error
\* ends it and the except clause returns [].
AncestorsLoop(ctx, parts, current, found, first) ==
    IF parts = <<>> THEN [ctx |-> ctx, val |-> found]
    ELSE IF Fails(ctx) THEN [ctx |-> Tick(ctx), val |-> <<>>]
    ELSE LET path == IF current # <<>> THEN current \o <<"/">> \o Head(parts)
                     ELSE Head(parts)
             rows == {r \in TypeRows(ctx) : r.path = path}
         IN AncestorsLoop(Tick(ctx), Tail(parts), path,
                          IF rows # {} THEN Append(found, FirstRow(rows, first))
                          ELSE found,
                          first)

\* Type.find_ancestors
FindAncestors(ctx, obj, first) ==
    IF obj.path = <<>> THEN [ctx |-> ctx, val |-> <<>>]
    ELSE LET parts == Split(obj.path)
         IN AncestorsLoop(ctx, SubSeq(parts, 1, Len(parts) - 1), <<>>, <<>>,
                          first)

\* UPDATE types SET ... WHERE id = obj.id
UpdateTypeRow(ctx, obj) ==
    [Tick(ctx) EXCEPT
       !.types = IF obj.id \in DOMAIN @ THEN [@ EXCEPT ![obj.id] = obj] ELSE @]

\* INSERT INTO types ...
InsertTypeRow(ctx, obj) ==
    [Tick(ctx) EXCEPT
       !.types = @ @@ (ctx.next :> [obj EXCEPT !.id = ctx.next]),
       !.next = @ + 1]

RECURSIVE TypeSave(_, _)
RECURSIVE CascadeSave(_, _)

\* The loop of Type._update_descendants_paths.
CascadeSave(ctx, list) ==
    IF list = <<>> THEN ctx
    ELSE LET u == UpdatePathAndLevel(ctx, Head(list))
             s == TypeSave(u.ctx, u.obj)
         IN CascadeSave(s.ctx, Tail(list))

\* Type._update_descendants_paths
UpdateDescendantsPaths(ctx, obj) ==
    LET d == FindDescendants(ctx, obj)
    IN CascadeSave(d.ctx, d.val)

\* Type.save after its write: the cascade, then True.
SaveCascade(ctx, obj) ==
    IF obj.id = NULL
    THEN [ctx |-> UpdateDescendantsPaths(ctx, obj), obj |-> obj, ok |-> TRUE]
    ELSE LET p == ParentChanged(ctx, obj)
         IN [ctx |-> IF p.val THEN UpdateDescendantsPaths(p.ctx, obj) ELSE p.ctx,
             obj |-> obj, ok |-> TRUE]

\* Type.save
TypeSave(ctx, obj0) ==
    LET u == UpdatePathAndLevel(ctx, obj0)
        obj == u.obj
    IN IF Fails(u.ctx)
       THEN [ctx |-> Tick(u.ctx), obj |-> obj, ok |-> FALSE]
       ELSE IF obj.id # NULL
       THEN SaveCascade(UpdateTypeRow(u.ctx, obj), obj)
       ELSE LET ins == InsertTypeRow(u.ctx, obj)
            IN IF Fails(ins)
               THEN [ctx |-> Tick(ins), obj |-> obj, ok |-> FALSE]
               ELSE SaveCascade(Tick(ins), [obj EXCEPT !.id = u.ctx.next])

RECURSIVE MoveChildren(_, _, _)
\* The loop of Type.delete: each child gets the deleted node's parent and is
\* saved; what save returns is not looked at.
MoveChildren(ctx, list, parent) ==
    IF list = <<>> THEN ctx
    ELSE LET s == TypeSave(ctx, [Head(list) EXCEPT !.parent_id = parent])
         IN MoveChildren(s.ctx, Tail(list), parent)

\* DELETE FROM types WHERE id = ...
DeleteTypeRow(ctx, id) ==
    [Tick(ctx) EXCEPT !.types = [i \in DOMAIN @ \ {id} |-> @[i]]]

\* Type.delete
TypeDelete(ctx, obj) ==
    IF obj.id = NULL THEN [ctx |-> ctx, ok |-> FALSE]
    ELSE LET c == FindChildren(ctx, obj)
             m == MoveChildren(c.ctx, c.val, obj.parent_id)
         IN IF Fails(m) THEN [ctx |-> Tick(m), ok |-> FALSE]
            ELSE [ctx |-> DeleteTypeRow(m, obj.id), ok |-> TRUE]

\* Type.find_by_name: the first row the query returns; pick is the row the
\* store returns first among those of that name (the query has no ORDER BY).
TypeFindByName(ctx, name, pick) ==
    [ctx |-> Tick(ctx),
     val |-> IF Fails(ctx) \/ pick \notin DOMAIN ctx.types
             THEN <<>>
             ELSE IF ctx.types[pick].name = name THEN <<ctx.types[pick]>> ELSE <<>>]

\* find_by_type_tree binding the direct children only.
TypeTreeIdsChildren(ctx, obj, include) ==
    IF include
    THEN LET d == FindChildren(ctx, obj)
         IN [ctx |-> Tick(d.ctx), desc |-> IdsOf(d.val),
             ids |-> <<obj.id>> \o IdsOf(d.val)]
    ELSE [ctx |-> Tick(ctx), desc |-> <<>>, ids |-> <<obj.id>>]

\* The identifiers IPManager.find_by_type_tree binds for a resolved node:
\* desc is what find_descendants returned, ids the bound parameters.
TypeTreeIds(ctx, obj, include) ==
    IF include
    THEN LET d == FindDescendants(ctx, obj)
         IN [ctx |-> Tick(d.ctx), desc |-> IdsOf(d.val),
             ids |-> <<obj.id>> \o IdsOf(d.val)]
    ELSE [ctx |-> Tick(ctx), desc |-> <<>>, ids |-> <<obj.id>>]

\* IPManager.find_by_type_tree up to its entity query: issued tells whether
\* the query was sent.
FindByTypeTree(ctx, name, pick, include) ==
    LET t == TypeFindByName(ctx, name, pick)
    IN IF t.val = <<>>
       THEN [ctx |-> t.ctx, node |-> NULL, issued |-> FALSE,
             desc |-> <<>>, ids |-> <<>>]
       ELSE LET q == TypeTreeIds(t.ctx, t.val[1], include)
            IN [ctx |-> q.ctx, node |-> t.val[1].id, issued |-> TRUE,
                desc |-> q.desc, ids |-> q.ids]

\* is_descendant_of testing the prefix without the "/" that ends a segment.
IsDescendantOfNoSlash(self, other) ==
    IF self.path = <<>> THEN FALSE
    ELSE StartsWith(self.path, other.path)

\* Type.is_ancestor_of
IsAncestorOf(self, other) ==
    IF other.path = <<>> THEN FALSE
    ELSE StartsWith(other.path, self.path \o <<"/">>)

\* Type.is_descendant_of
IsDescendantOf(self, other) ==
    IF self.path = <<>> THEN FALSE
    ELSE StartsWith(self.path, other.path \o <<"/">>)

\* --------------------------------------------------------------------- IP

\* The gateway as one IP operation sees it; writes counts the execute_update
\* calls made.
IPGateway(failAt) ==
    [ips |-> ips, next |-> nextIpId, calls |-> 0, failAt |-> failAt,
     writes |-> 0]

IPRows(ctx) == {ctx.ips[i] : i \in DOMAIN ctx.ips}

\* A constructor without the status check.
IPNewUnchecked(name, status, parent) ==
    <<[id |-> NULL, name |-> name, parent_ip_id |-> parent, status |-> status]>>

\* IP.__init__: an object (a sequence of one), or no object when the status
\* check raises ValueError.
IPNew(name, status, parent) ==
    IF status \in IP_STATUSES
    THEN <<[id |-> NULL, name |-> name, parent_ip_id |-> parent,
            status |-> status]>>
    ELSE <<>>

\* IP.from_dict does not raise on this row.
Loadable(row) == IPNew(row.name, row.status, row.parent_ip_id) # <<>>

\* IP.find_by_id: None when no row has the id, when from_dict raises on the
\* row, and when the gateway raises.
IPFindById(ctx, id) ==
    [ctx |-> Tick(ctx),
     val |-> IF Fails(ctx) \/ id \notin DOMAIN ctx.ips THEN <<>>
             ELSE IF Loadable(ctx.ips[id]) THEN <<ctx.ips[id]>> ELSE <<>>]

\* IP.find_by_name: the first row the query returns (pick), loaded.
IPFindByName(ctx, name, pick) ==
    [ctx |-> Tick(ctx),
     val |-> IF Fails(ctx) \/ pick \notin DOMAIN ctx.ips THEN <<>>
             ELSE IF ctx.ips[pick].name = name /\ Loadable(ctx.ips[pick])
                  THEN <<ctx.ips[pick]>> ELSE <<>>]

\* IP.get_parent
GetParent(ctx, obj) ==
    IF obj.parent_ip_id # NULL THEN IPFindById(ctx, obj.parent_ip_id)
    ELSE [ctx |-> ctx, val |-> <<>>]

\* IP.get_children: WHERE parent_ip_id = self.id ORDER BY name; an empty list
\* when the gateway raises or from_dict raises on one of the rows.
GetChildren(ctx, obj) ==
    LET rows == {r \in IPRows(ctx) : obj.id # NULL /\ r.parent_ip_id = obj.id}
    IN [ctx |-> Tick(ctx),
        val |-> IF Fails(ctx) \/ \E r \in rows : ~Loadable(r) THEN <<>>
                ELSE OrderByName(rows)]

\* One execute_update call made.
TickWrite(ctx) == [Tick(ctx) EXCEPT !.writes = @ + 1]

\* UPDATE ips SET ... WHERE id = obj.id
UpdateIPRow(ctx, obj) ==
    [TickWrite(ctx) EXCEPT
       !.ips = IF obj.id \in DOMAIN @ THEN [@ EXCEPT ![obj.id] = obj] ELSE @]

\* INSERT INTO ips ...
InsertIPRow(ctx, obj) ==
    [TickWrite(ctx) EXCEPT
       !.ips = @ @@ (ctx.next :> [obj EXCEPT !.id = ctx.next]),
       !.next = @ + 1]

\* IP.save
IPSave(ctx, obj) ==
    IF Fails(ctx)
    THEN [ctx |-> TickWrite(ctx), obj |-> obj, ok |-> FALSE]
    ELSE IF obj.id # NULL
    THEN [ctx |-> UpdateIPRow(ctx, obj), obj |-> obj, ok |-> TRUE]
    ELSE LET ins == InsertIPRow(ctx, obj)
         IN IF Fails(ins)
            THEN [ctx |-> Tick(ins), obj |-> obj, ok |-> FALSE]
            ELSE [ctx |-> Tick(ins), obj |-> [obj EXCEPT !.id = ctx.next],
                  ok |-> TRUE]

\* IP.delete
IPDelete(ctx, obj) ==
    IF obj.id = NULL THEN [ctx |-> ctx, ok |-> FALSE]
    ELSE IF Fails(ctx) THEN [ctx |-> TickWrite(ctx), ok |-> FALSE]
    ELSE [ctx |-> [TickWrite(ctx) EXCEPT
                     !.ips = [i \in DOMAIN @ \ {obj.id} |-> @[i]]],
          ok |-> TRUE]

\* add_child without the check that the parent has an id.
AddChildUnchecked(ctx, parent, child) ==
    IPSave(ctx, [child EXCEPT !.parent_ip_id = parent.id])

\* IP.add_child
AddChild(ctx, parent, child) ==
    IF parent.id = NULL
    THEN [ctx |-> ctx, obj |-> child, ok |-> FALSE]
    ELSE IPSave(ctx, [child EXCEPT !.parent_ip_id = parent.id])

\* IP.remove_child
RemoveChild(ctx, parent, child) ==
    IF child.parent_ip_id # parent.id
    THEN [ctx |-> ctx, obj |-> child, ok |-> FALSE]
    ELSE IPSave(ctx, [child EXCEPT !.parent_ip_id = NULL])

\* IP.update_status
UpdateStatus(ctx, obj, status) ==
    IF status \notin IP_STATUSES
    THEN [ctx |-> ctx, obj |-> obj, ok |-> FALSE]
    ELSE IPSave(ctx, [obj EXCEPT !.status = status])

\* release that also clears the parent link.
ReleaseDroppingParent(ctx, obj) ==
    UpdateStatus(ctx, [obj EXCEPT !.parent_ip_id = NULL], "production")

\* release that sets another status than production.
ReleaseToObsolete(ctx, obj) == UpdateStatus(ctx, obj, "obsolete")

\* IP.release
Release(ctx, obj) == UpdateStatus(ctx, obj, "production")

\* The calls a traversal may nest before it has gone round a parent cycle:
\* a chain without a cycle is no longer than the table.
TraversalLimit(ctx) == Cardinality(DOMAIN ctx.ips) + 1

RECURSIVE RootAncestorLoop(_, _, _)
\* The while loop of IP.get_root_ancestor; diverged when it went round a
\* cycle (the loop does not end).
RootAncestorLoop(ctx, current, fuel) ==
    IF current.parent_ip_id = NULL
    THEN [ctx |-> ctx, val |-> current, diverged |-> FALSE]
    ELSE IF fuel = 0
    THEN [ctx |-> ctx, val |-> current, diverged |-> TRUE]
    ELSE LET p == GetParent(ctx, current)
         IN IF p.val # <<>>
            THEN RootAncestorLoop(p.ctx, p.val[1], fuel - 1)
            ELSE [ctx |-> p.ctx, val |-> current, diverged |-> FALSE]

\* get_root_ancestor that climbs one parent link and stops.
GetRootAncestorOneStep(ctx, obj) ==
    IF obj.parent_ip_id = NULL
    THEN [ctx |-> ctx, val |-> obj, diverged |-> FALSE]
    ELSE LET p == GetParent(ctx, obj)
         IN [ctx |-> p.ctx,
             val |-> IF p.val # <<>> THEN p.val[1] ELSE obj,
             diverged |-> FALSE]

\* IP.get_root_ancestor
GetRootAncestor(ctx, obj) == RootAncestorLoop(ctx, obj, TraversalLimit(ctx))

RECURSIVE DescendantsRec(_, _, _)
RECURSIVE DescendantsLoop(_, _, _)

\* IP.get_all_descendants at nesting depth fuel; diverged when the recursion
\* went round a cycle (it does not end).
DescendantsRec(ctx, obj, fuel) ==
    IF fuel = 0 THEN [ctx |-> ctx, val |-> <<>>, diverged |-> TRUE]
    ELSE LET c == GetChildren(ctx, obj)
         IN DescendantsLoop(c.ctx, c.val, fuel - 1)

\* The for loop of IP.get_all_descendants: the child, then its descendants.
DescendantsLoop(ctx, children, fuel) ==
    IF children = <<>> THEN [ctx |-> ctx, val |-> <<>>, diverged |-> FALSE]
    ELSE LET d == DescendantsRec(ctx, Head(children), fuel)
             rest == DescendantsLoop(d.ctx, Tail(children), fuel)
         IN [ctx |-> rest.ctx,
             val |-> <<Head(children)>> \o d.val \o rest.val,
             diverged |-> d.diverged \/ rest.diverged]

\* IP.get_all_descendants
GetAllDescendants(ctx, obj) == DescendantsRec(ctx, obj, TraversalLimit(ctx))

\* allowed_fields of IPManager.update
AllowedFields ==
    {"name", "type_id", "process_id", "revision", "status", "provider",
     "description", "documentation"}

\* The setattr loop without the allow-list: every supplied attribute is set.
ApplyUpdatesUnfiltered(obj, updates) ==
    [f \in DOMAIN obj |-> IF f \in DOMAIN updates THEN updates[f] ELSE obj[f]]

\* The setattr loop of IPManager.update.
ApplyUpdates(obj, updates) ==
    [f \in DOMAIN obj |->
       IF f \in DOMAIN updates /\ f \in AllowedFields THEN updates[f] ELSE obj[f]]

\* IPManager.update
ManagerUpdate(ctx, name, pick, updates) ==
    LET f == IPFindByName(ctx, name, pick)
    IN IF f.val = <<>> THEN [ctx |-> f.ctx, obj |-> <<>>, ok |-> FALSE]
       ELSE LET s == IPSave(f.ctx, ApplyUpdates(f.val[1], updates))
            IN [ctx |-> s.ctx, obj |-> <<s.obj>>, ok |-> s.ok]

\* IPManager.release
ManagerRelease(ctx, name, pick) ==
    LET f == IPFindByName(ctx, name, pick)
    IN IF f.val = <<>> THEN [ctx |-> f.ctx, obj |-> <<>>, ok |-> FALSE]
       ELSE LET s == Release(f.ctx, f.val[1])
            IN [ctx |-> s.ctx, obj |-> <<s.obj>>, ok |-> s.ok]

\* IP.from_dict: data.get('status', DEFAULT_STATUS) and data.get('id'), then
\* the constructor with its status check.
FromDict(data) ==
    LET new == IPNew(data.name,
                     IF "status" \in DOMAIN data THEN data.status
                     ELSE DEFAULT_STATUS,
                     data.parent_ip_id)
    IN IF new = <<>> THEN <<>>
       ELSE <<[new[1] EXCEPT !.id = IF "id" \in DOMAIN data THEN data.id
                                    ELSE NULL]>>

\* IP(...) called directly: the status parameter defaults to DEFAULT_STATUS.
IPInit(data) ==
    IPNew(data.name,
          IF "status" \in DOMAIN data THEN data.status ELSE DEFAULT_STATUS,
          data.parent_ip_id)

\* One where_conditions.append of IPManager.find: the predicate column = %s
\* when the key is among the criteria.
Cond(criteria, key, column) ==
    IF key \in DOMAIN criteria THEN <<<<column, "=", "%s">>>> ELSE <<>>

\* One params.append of IPManager.find.
Param(criteria, key) ==
    IF key \in DOMAIN criteria THEN <<criteria[key]>> ELSE <<>>

\* Statement composition with name and status bound in the other order.
ComposeFindStatusFirst(criteria) ==
    [joins |-> <<>>,
     where |-> Cond(criteria, "status", "i.status")
                  \o Cond(criteria, "name", "i.name"),
     params |-> Param(criteria, "status") \o Param(criteria, "name")]

\* Statement composition that also turns the revision key into a predicate.
ComposeFindWithRevision(criteria) ==
    [joins |-> <<>>,
     where |-> Cond(criteria, "name", "i.name")
                  \o Cond(criteria, "revision", "i.revision"),
     params |-> Param(criteria, "name") \o Param(criteria, "revision")]

\* Statement composition that leaves the status criterion out.
ComposeFindWithoutStatus(criteria) ==
    [joins |-> <<>>,
     where |-> Cond(criteria, "name", "i.name"),
     params |-> Param(criteria, "name")]

\* The statement IPManager.find composes: its joins, its where_conditions
\* and its params, in the order the code appends them.
ComposeFind(criteria) ==
    LET keys == DOMAIN criteria
        byType == "type_name" \in keys \/ "type_id" \in keys
        byProcess == \/ "process_name" \in keys
                     \/ "process_id" \in keys
                     \/ "fab" \in keys
                     \/ "node" \in keys
    IN [joins |->
          (IF byType THEN <<"JOIN types t ON i.type_id = t.id">> ELSE <<>>)
             \o (IF byProcess THEN <<"JOIN processes p ON i.process_id = p.id">>
                 ELSE <<>>),
        where |->
          (IF byType
           THEN Cond(criteria, "type_name", "t.name")
                   \o Cond(criteria, "type_id", "i.type_id")
           ELSE <<>>)
             \o (IF byProcess
                 THEN Cond(criteria, "process_name", "p.name")
                         \o Cond(criteria, "process_id", "i.process_id")
                         \o Cond(criteria, "fab", "p.fab")
                         \o Cond(criteria, "node", "p.node")
                 ELSE <<>>)
             \o Cond(criteria, "name", "i.name")
             \o Cond(criteria, "status", "i.status")
             \o Cond(criteria, "provider", "i.provider"),
        params |->
          (IF byType
           THEN Param(criteria, "type_name") \o Param(criteria, "type_id")
           ELSE <<>>)
             \o (IF byProcess
                 THEN Param(criteria, "process_name")
                         \o Param(criteria, "process_id")
                         \o Param(criteria, "fab")
                         \o Param(criteria, "node")
                 ELSE <<>>)
             \o Param(criteria, "name")
             \o Param(criteria, "status")
             \o Param(criteria, "provider")]

\* The value of a column of a row of ips joined with its types row.
ColumnOf(r, column) ==
    CASE column = "i.name" -> r.name
      [] column = "i.status" -> r.status
      [] column = "i.type_id" -> r.type_id
      [] column = "i.parent_ip_id" -> r.parent_ip_id
      [] column = "t.name" -> types[r.type_id].name

\* What the database answers to a composed statement: the rows of ips that
\* have a partner in every joined table (inner joins; no process rows are
\* kept, so a join with processes has no rows) and satisfy every predicate,
\* ORDER BY i.name.
ExecuteFind(ctx, stmt) ==
    LET joined ==
          {r \in IPRows(ctx) :
             /\ "JOIN types t ON i.type_id = t.id" \in Range(stmt.joins)
                   => r.type_id \in DOMAIN types
             /\ "JOIN processes p ON i.process_id = p.id"
                   \notin Range(stmt.joins)}
    IN OrderByName({r \in joined :
                      \A j \in 1..Len(stmt.where) :
                         ColumnOf(r, stmt.where[j][1]) = stmt.params[j]})

\* [IP.from_dict(row) for row in result]: one row that does not load
\* raises, and the caller's except clause then returns [].
LoadAll(rows) ==
    IF \A j \in 1..Len(rows) : Loadable(rows[j]) THEN rows ELSE <<>>

\* IPManager.find: the statement handed to the gateway, whether the gateway
\* answered, and the list returned (the except clause returns [] when the
\* gateway raised).
Find(ctx, criteria) ==
    LET stmt == ComposeFind(criteria)
    IN [ctx |-> Tick(ctx), stmt |-> stmt, ok |-> ~Fails(ctx),
        val |-> IF Fails(ctx) THEN <<>> ELSE LoadAll(ExecuteFind(ctx, stmt))]

\* ------------------------------------------------------------- operations

KidsOf(id) == {i \in DOMAIN types : types[i].parent_id = id}

Last(op, id, ok, old, kids, res, flag, fault) ==
    [op |-> op, id |-> id, ok |-> ok, old |-> old, kids |-> kids,
     res |-> res, flag |-> flag, fault |-> fault]

\* Every stored path is within the model's length bound.
PathsBounded(table) == \A i \in DOMAIN table : Len(table[i].path) <= MaxPathLen

ILast(op, id, ok, pre, post, writes, res, diverged, fault) ==
    [op |-> op, id |-> id, ok |-> ok, pre |-> pre, post |-> post,
     writes |-> writes, res |-> res, diverged |-> diverged, fault |-> fault]

\* Empty tables, as db_manager.create_tables() leaves them.
EmptyStore ==
    /\ types = <<>>
    /\ nextTypeId = 1
    /\ tlast = Last("none", NULL, FALSE, NULL, {}, <<>>, FALSE, FALSE)
    /\ ips = <<>>
    /\ nextIpId = 1
    /\ ilast = ILast("none", NULL, FALSE, <<>>, <<>>, 0, <<>>, FALSE, FALSE)
    /\ ops = 0

\* A storage gateway that may raise on any call.
Init == EmptyStore /\ faults = TRUE

\* A storage gateway that answers every call.
InitReliable == EmptyStore /\ faults = FALSE

\* Type(name, parent_id).save()
TypeCreate ==
    \E name \in Names, parent \in TypeParents, failAt \in FailPoints :
       /\ nextTypeId <= MaxTypeId
       /\ ops < MaxOps
       /\ ops' = ops + 1
       /\ UNCHANGED <<faults, ipVars>>
       /\ LET s == TypeSave(Gateway(failAt), NewType(name, parent))
          IN /\ PathsBounded(s.ctx.types)
             /\ types' = s.ctx.types
             /\ nextTypeId' = s.ctx.next
             /\ tlast' = Last("create", s.obj.id, s.ok, NULL, {}, <<>>,
                              FALSE, Faulted(s.ctx))

\* t = Type.find_by_id(id); t.name = name or t.parent_id = parent; t.save()
TypeModify ==
    \E id \in DOMAIN types, name \in Names, parent \in TypeParents,
       failAt \in FailPoints :
       /\ name = types[id].name \/ parent = types[id].parent_id
       /\ ops < MaxOps
       /\ ops' = ops + 1
       /\ UNCHANGED <<faults, ipVars>>
       /\ LET s == TypeSave(Gateway(failAt),
                            [types[id] EXCEPT !.name = name, !.parent_id = parent])
          IN /\ PathsBounded(s.ctx.types)
             /\ types' = s.ctx.types
             /\ nextTypeId' = s.ctx.next
             /\ tlast' = Last("save", id, s.ok, types[id].parent_id, KidsOf(id),
                              <<>>, FALSE, Faulted(s.ctx))

\* t = Type.find_by_id(id); t.delete()
TypeRemove ==
    \E id \in DOMAIN types, failAt \in FailPoints :
       LET d == TypeDelete(Gateway(failAt), types[id])
       IN /\ ops < MaxOps
          /\ ops' = ops + 1
          /\ UNCHANGED <<faults, ipVars>>
          /\ PathsBounded(d.ctx.types)
          /\ types' = d.ctx.types
          /\ nextTypeId' = d.ctx.next
          /\ tlast' = Last("delete", id, d.ok, types[id].parent_id, KidsOf(id), <<>>,
                           FALSE, Faulted(d.ctx))

\* t = Type.find_by_id(id); t.find_descendants()
TypeDescendants ==
    \E id \in DOMAIN types, failAt \in FailPoints :
       LET d == FindDescendants(Gateway(failAt), types[id])
       IN /\ tlast' = Last("find_descendants", id, TRUE, types[id].parent_id, {},
                           IdsOf(d.val), FALSE, Faulted(d.ctx))
          /\ UNCHANGED <<types, nextTypeId, ops, faults, ipVars>>

\* t = Type.find_by_id(id); t.find_ancestors()
TypeAncestors ==
    \E id \in DOMAIN types, failAt \in FailPoints, first \in DOMAIN types :
       LET a == FindAncestors(Gateway(failAt), types[id], first)
       IN /\ tlast' = Last("find_ancestors", id, TRUE, types[id].parent_id, {},
                           IdsOf(a.val), FALSE, Faulted(a.ctx))
          /\ UNCHANGED <<types, nextTypeId, ops, faults, ipVars>>

\* IPManager.find_by_type_tree(name, include_descendants)
TypeTreeQuery ==
    \E name \in Names, include \in BOOLEAN, failAt \in FailPoints,
       pick \in DOMAIN types \cup {NULL} :
       /\ pick = NULL => \A i \in DOMAIN types : types[i].name # name
       /\ pick # NULL => types[pick].name = name
       /\ LET q == FindByTypeTree(Gateway(failAt), name, pick, include)
          IN tlast' = Last("find_by_type_tree", q.node, q.issued, NULL,
                           Range(q.desc), q.ids, include, Faulted(q.ctx))
       /\ UNCHANGED <<types, nextTypeId, ops, faults, ipVars>>

\* Objects a caller holds after IP.find_by_id.
LoadedIPs == {ips[i] : i \in {j \in DOMAIN ips : Loadable(ips[j])}}

\* Objects a caller has constructed and not saved.
FreshIPs == {IPNew(name, DEFAULT_STATUS, NULL)[1] : name \in IPNames}

\* The row the store returns first for a name, or none.
IsPick(pick, name) ==
    /\ pick = NULL => \A i \in DOMAIN ips : ips[i].name # name
    /\ pick # NULL => ips[pick].name = name

\* IP(name, ..., status=status, parent_ip_id=parent).save()
IPCreate ==
    \E name \in IPNames, status \in {DEFAULT_STATUS, "bogus"},
       parent \in IPParents, failAt \in FailPoints :
       /\ nextIpId <= MaxIpId
       /\ ops < MaxOps
       /\ LET new == IPNew(name, status, parent)
          IN IF new = <<>>
             THEN /\ ilast' = ILast("create", NULL, FALSE, <<>>, <<>>, 0, <<>>,
                                    FALSE, FALSE)
                  /\ UNCHANGED <<ips, nextIpId, ops>>
             ELSE LET s == IPSave(IPGateway(failAt), new[1])
                  IN /\ ips' = s.ctx.ips
                     /\ nextIpId' = s.ctx.next
                     /\ ops' = ops + 1
                     /\ ilast' = ILast("create", s.obj.id, s.ok, new, <<s.obj>>,
                                       s.ctx.writes, <<>>, FALSE, Faulted(s.ctx))
       /\ UNCHANGED <<faults, typeVars>>

\* parent.add_child(child)
IPAddChild ==
    \E parent \in LoadedIPs \cup FreshIPs, child \in LoadedIPs \cup FreshIPs,
       failAt \in FailPoints :
       /\ ops < MaxOps
       /\ LET s == AddChild(IPGateway(failAt), parent, child)
          IN /\ s.ctx.next <= MaxIpId + 1
             /\ ips' = s.ctx.ips
             /\ nextIpId' = s.ctx.next
             /\ ilast' = ILast("add_child", parent.id, s.ok, <<child>>, <<s.obj>>,
                               s.ctx.writes, <<>>, FALSE, Faulted(s.ctx))
       /\ ops' = ops + 1
       /\ UNCHANGED <<faults, typeVars>>

\* parent.remove_child(child)
IPRemoveChild ==
    \E parent \in LoadedIPs \cup FreshIPs, child \in LoadedIPs \cup FreshIPs,
       failAt \in FailPoints :
       /\ ops < MaxOps
       /\ LET s == RemoveChild(IPGateway(failAt), parent, child)
          IN /\ s.ctx.next <= MaxIpId + 1
             /\ ips' = s.ctx.ips
             /\ nextIpId' = s.ctx.next
             /\ ilast' = ILast("remove_child", parent.id, s.ok, <<child>>,
                               <<s.obj>>, s.ctx.writes, <<>>, FALSE,
                               Faulted(s.ctx))
       /\ ops' = ops + 1
       /\ UNCHANGED <<faults, typeVars>>

\* ip = IP.find_by_id(id); ip.delete()
IPRemove ==
    \E obj \in LoadedIPs, failAt \in FailPoints :
       /\ ops < MaxOps
       /\ LET d == IPDelete(IPGateway(failAt), obj)
          IN /\ ips' = d.ctx.ips
             /\ ilast' = ILast("delete", obj.id, d.ok, <<obj>>, <<>>,
                               d.ctx.writes, <<>>, FALSE, Faulted(d.ctx))
       /\ ops' = ops + 1
       /\ UNCHANGED <<nextIpId, faults, typeVars>>

\* ip = IP.find_by_id(id); ip.update_status(status)
IPUpdateStatus ==
    \E obj \in LoadedIPs, status \in StatusInputs, failAt \in FailPoints :
       /\ ops < MaxOps
       /\ LET s == UpdateStatus(IPGateway(failAt), obj, status)
          IN /\ ips' = s.ctx.ips
             /\ ilast' = ILast("update_status", obj.id, s.ok, <<obj>>, <<s.obj>>,
                               s.ctx.writes, <<>>, FALSE, Faulted(s.ctx))
       /\ ops' = ops + 1
       /\ UNCHANGED <<nextIpId, faults, typeVars>>

\* Field maps the callers pass to IPManager.update.
UpdateInputs ==
    {[status |-> v] : v \in StatusInputs}
       \cup {[name |-> n] : n \in IPNames}
       \cup {[id |-> 1, parent_ip_id |-> NULL, status |-> "beta"]}

\* ip_manager.update(name, **updates)
IPManagerUpdate ==
    \E name \in IPNames, updates \in UpdateInputs, failAt \in FailPoints,
       pick \in DOMAIN ips \cup {NULL} :
       /\ ops < MaxOps
       /\ IsPick(pick, name)
       /\ LET s == ManagerUpdate(IPGateway(failAt), name, pick, updates)
          IN /\ ips' = s.ctx.ips
             /\ ilast' = ILast("update", pick, s.ok,
                               IF pick = NULL THEN <<>> ELSE <<ips[pick]>>,
                               s.obj, s.ctx.writes, <<updates>>, FALSE,
                               Faulted(s.ctx))
       /\ ops' = ops + 1
       /\ UNCHANGED <<nextIpId, faults, typeVars>>

\* ip_manager.release(name)
IPManagerRelease ==
    \E name \in IPNames, failAt \in FailPoints, pick \in DOMAIN ips \cup {NULL} :
       /\ ops < MaxOps
       /\ IsPick(pick, name)
       /\ LET s == ManagerRelease(IPGateway(failAt), name, pick)
          IN /\ ips' = s.ctx.ips
             /\ ilast' = ILast("release", pick, s.ok,
                               IF pick = NULL THEN <<>> ELSE <<ips[pick]>>,
                               s.obj, s.ctx.writes, <<>>, FALSE, Faulted(s.ctx))
       /\ ops' = ops + 1
       /\ UNCHANGED <<nextIpId, faults, typeVars>>

\* ip = IP.find_by_id(id); ip.get_all_descendants()
IPDescendants ==
    \E obj \in LoadedIPs, failAt \in FailPoints :
       /\ LET d == GetAllDescendants(IPGateway(failAt), obj)
          IN ilast' = ILast("get_all_descendants", obj.id, ~d.diverged, <<obj>>,
                            <<>>, d.ctx.writes, IdsOf(d.val), d.diverged,
                            Faulted(d.ctx))
       /\ UNCHANGED <<ips, nextIpId, ops, faults, typeVars>>

\* ip.get_root_ancestor() on a loaded or a freshly constructed object
IPRootAncestor ==
    \E obj \in LoadedIPs \cup FreshIPs, failAt \in FailPoints :
       /\ LET r == GetRootAncestor(IPGateway(failAt), obj)
          IN ilast' = ILast("get_root_ancestor", obj.id, ~r.diverged, <<obj>>,
                            <<r.val>>, r.ctx.writes, <<>>, r.diverged,
                            Faulted(r.ctx))
       /\ UNCHANGED <<ips, nextIpId, ops, faults, typeVars>>

NextIP ==
    \/ IPCreate
    \/ IPAddChild
    \/ IPRemoveChild
    \/ IPRemove
    \/ IPUpdateStatus
    \/ IPManagerUpdate
    \/ IPManagerRelease
    \/ IPDescendants
    \/ IPRootAncestor

Next ==
    \/ TypeCreate
    \/ TypeModify
    \/ TypeRemove
    \/ TypeDescendants
    \/ TypeTreeQuery

\* The tree's writes and find_ancestors.
NextAncestors ==
    \/ TypeCreate
    \/ TypeModify
    \/ TypeRemove
    \/ TypeAncestors

Spec == Init /\ [][Next]_vars

SpecReliable == InitReliable /\ [][Next]_vars

SpecAncestors == InitReliable /\ [][NextAncestors]_vars

SpecIP == Init /\ [][NextIP]_vars

SpecIPReliable == InitReliable /\ [][NextIP]_vars

\* ----------------------------------------------------- calls without state

\* The criteria keys IPManager.find looks at, and two it does not.
FindKeys ==
    {"type_name", "type_id", "process_name", "process_id", "fab", "node",
     "name", "status", "provider"}

OtherKeys == {"revision", "parent_ip_id"}

\* The values a criterion is given.
CriteriaValues == {1, 2}

\* The criteria maps the callers pass to IPManager.find.
CriteriaMaps ==
    UNION {[keys -> CriteriaValues] : keys \in SUBSET (FindKeys \cup OtherKeys)}

\* Status arguments of the constructor: the valid ones, another letter case,
\* the empty string, None (written "None") and an unknown word.
StatusArgs == IP_STATUSES \cup {"Alpha", "", "None", "bogus"}

\* Constructor arguments and stored rows, with and without a status.
ConstructorInputs ==
    {[name |-> <<"a">>, parent_ip_id |-> NULL, id |-> 1]}
       \cup {[name |-> <<"a">>, parent_ip_id |-> NULL, id |-> 1, status |-> v] :
               v \in StatusArgs}

RECURSIVE StringsUpTo(_)
\* The strings of at most n characters over "a" and "/".
StringsUpTo(n) ==
    IF n = 0 THEN {<<>>}
    ELSE StringsUpTo(n - 1)
            \cup {Append(w, c) : w \in StringsUpTo(n - 1), c \in {"a", "/"}}

\* The paths of the nodes compared.
PathInputs == StringsUpTo(MaxPathLen - 2)

\* Type objects as a caller builds them: with or without an id, with any
\* path, the empty one included.
NodeInputs ==
    {[id |-> i, name |-> <<"a">>, path |-> x, parent_id |-> NULL, level |-> 0] :
       i \in {NULL, 1}, x \in PathInputs}

\* A call that has been made and has not returned yet.
Pending(op, args) ==
    ILast(op, NULL, FALSE, <<args>>, <<>>, 0, <<>>, FALSE, FALSE)

\* Empty tables and one call of find, of a lookup, of find_descendants, of
\* the constructor or from_dict, or of the two path predicates, about to
\* run.
InitCalls ==
    /\ types = <<>>
    /\ nextTypeId = 1
    /\ tlast = Last("none", NULL, FALSE, NULL, {}, <<>>, FALSE, FALSE)
    /\ ips = <<>>
    /\ nextIpId = 1
    /\ ops = 0
    /\ faults = TRUE
    /\ ilast \in {Pending("call_find", c) : c \in CriteriaMaps}
                \cup {Pending("call_init", d) : d \in ConstructorInputs}
                \cup {Pending("call_from_dict", d) : d \in ConstructorInputs}
                \cup {Pending("call_find_by_name", n) : n \in IPNames}
                \cup {Pending("call_find_by_id", i) : i \in CriteriaValues}
                \cup {Pending("call_find_descendants", t) : t \in NodeInputs}
                \cup {Pending("call_compare", [a |-> [path |-> x],
                                               b |-> [path |-> y]]) :
                        x \in PathInputs, y \in PathInputs}

\* ip_manager.find(**criteria)
IPFind ==
    \E failAt \in FailPoints :
       /\ ilast.op = "call_find"
       /\ LET f == Find(IPGateway(failAt), ilast.pre[1])
          IN ilast' = ILast("find", NULL, f.ok, ilast.pre, f.val, f.ctx.writes,
                            <<f.stmt>>, FALSE, Faulted(f.ctx))
       /\ UNCHANGED <<ips, nextIpId, ops, faults, typeVars>>

\* IP.find_by_name(name) and IP.find_by_id(id): post holds the object
\* returned, or nothing for None.
IPLookup ==
    \E failAt \in FailPoints, pick \in {NULL} \cup DOMAIN ips :
       /\ ilast.op \in {"call_find_by_name", "call_find_by_id"}
       /\ IF ilast.op = "call_find_by_name" THEN IsPick(pick, ilast.pre[1])
          ELSE pick = NULL
       /\ LET f == IF ilast.op = "call_find_by_name"
                   THEN IPFindByName(IPGateway(failAt), ilast.pre[1], pick)
                   ELSE IPFindById(IPGateway(failAt), ilast.pre[1])
          IN ilast' = ILast(IF ilast.op = "call_find_by_name"
                            THEN "find_by_name" ELSE "find_by_id",
                            NULL, f.val # <<>>, ilast.pre, f.val, f.ctx.writes,
                            <<>>, FALSE, Faulted(f.ctx))
       /\ UNCHANGED <<ips, nextIpId, ops, faults, typeVars>>

\* t.find_descendants() on an object the caller built: res holds the
\* number of gateway calls made, post the list returned.
TypeDescendantsOf ==
    \E failAt \in FailPoints :
       /\ ilast.op = "call_find_descendants"
       /\ LET d == FindDescendants(Gateway(failAt), ilast.pre[1])
          IN ilast' = ILast("find_descendants", NULL, TRUE, ilast.pre, d.val,
                            0, <<d.ctx.calls>>, FALSE, Faulted(d.ctx))
       /\ UNCHANGED <<ips, nextIpId, ops, faults, typeVars>>

\* IP(name, ..., status=...) and IP.from_dict(row): ok tells that an object
\* was built, not ok that ValueError was raised.
IPConstruct ==
    /\ ilast.op \in {"call_init", "call_from_dict"}
    /\ LET new == IF ilast.op = "call_init" THEN IPInit(ilast.pre[1])
                  ELSE FromDict(ilast.pre[1])
       IN ilast' = ILast("construct", NULL, new # <<>>, ilast.pre, new, 0,
                         <<ilast.op>>, FALSE, FALSE)
    /\ UNCHANGED <<ips, nextIpId, ops, faults, typeVars>>

\* a.is_ancestor_of(b) and b.is_descendant_of(a): ok and res hold the two
\* answers.
TypeCompare ==
    /\ ilast.op = "call_compare"
    /\ LET a == ilast.pre[1].a
           b == ilast.pre[1].b
       IN ilast' = ILast("compare", NULL, IsAncestorOf(a, b), ilast.pre, <<>>,
                         0, <<IsDescendantOf(b, a)>>, FALSE, FALSE)
    /\ UNCHANGED <<ips, nextIpId, ops, faults, typeVars>>

NextCalls ==
    \/ IPFind
    \/ IPLookup
    \/ TypeDescendantsOf
    \/ IPConstruct
    \/ TypeCompare

SpecCalls == InitCalls /\ [][NextCalls]_vars

\* ---------------------------------------------------- entities with a type

\* IP(name, type_id, ...): the object with its type_id attribute.
IPTyped(name, type_id) ==
    LET base == IPNew(name, DEFAULT_STATUS, NULL)[1]
    IN [f \in DOMAIN base \cup {"type_id"} |->
          IF f = "type_id" THEN type_id ELSE base[f]]

RECURSIVE OrderById(_)
\* ORDER BY id
OrderById(S) ==
    IF S = {} THEN <<>>
    ELSE LET m == CHOOSE r \in S : \A q \in S \ {r} : r.id < q.id
         IN <<m>> \o OrderById(S \ {m})

\* find_by_type without its ORDER BY name: rows come in id order.
IPFindByTypeUnordered(ctx, type_id) ==
    [ctx |-> Tick(ctx),
     val |-> IF Fails(ctx) THEN <<>>
             ELSE LoadAll(OrderById({r \in IPRows(ctx) : r.type_id = type_id}))]

\* IP.find_by_type
IPFindByType(ctx, type_id) ==
    [ctx |-> Tick(ctx),
     val |-> IF Fails(ctx) THEN <<>>
             ELSE LoadAll(OrderByName({r \in IPRows(ctx) :
                                         r.type_id = type_id}))]

\* IPManager.find_by_type_tree with its entity query: the node resolved and
\* the list returned ([] when the name did not resolve or the entity query
\* raised).
TypeTreeEntities(ctx, name, pick, include) ==
    LET q == FindByTypeTree(ctx, name, pick, include)
    IN [ctx |-> q.ctx, node |-> q.node, ids |-> q.ids,
        val |-> IF ~q.issued \/ q.ctx.failAt = q.ctx.calls THEN <<>>
                ELSE LoadAll(OrderByName({r \in {ips[i] : i \in DOMAIN ips} :
                                            r.type_id \in Range(q.ids)}))]

\* The criteria the callers search the entities by.
SearchCriteria ==
    {[name |-> n] : n \in IPNames}
       \cup {[status |-> v] : v \in {"alpha", "beta"}}
       \cup {[name |-> n, status |-> "alpha"] : n \in IPNames}
       \cup {[parent_ip_id |-> 1]}
       \cup {[name |-> n, parent_ip_id |-> 1] : n \in IPNames}

\* IP(name, type_id, process_id).save(): the code does not look the type up.
IPCreateTyped ==
    \E name \in IPNames, t \in 1..MaxTypeId, failAt \in FailPoints :
       /\ nextIpId <= MaxIpId
       /\ ops < MaxOps
       /\ LET new == IPTyped(name, t)
              s == IPSave(IPGateway(failAt), new)
          IN /\ ips' = s.ctx.ips
             /\ nextIpId' = s.ctx.next
             /\ ilast' = ILast("create", s.obj.id, s.ok, <<new>>, <<s.obj>>,
                               s.ctx.writes, <<>>, FALSE, Faulted(s.ctx))
       /\ ops' = ops + 1
       /\ UNCHANGED <<faults, typeVars>>

\* ip_manager.find(**criteria) on the stored entities: post holds the list
\* returned, res the statement.
IPSearch ==
    \E c \in SearchCriteria, failAt \in FailPoints :
       LET f == Find(IPGateway(failAt), c)
       IN /\ ilast' = ILast("find", NULL, f.ok, <<c>>, f.val, f.ctx.writes,
                            <<f.stmt>>, FALSE, Faulted(f.ctx))
          /\ UNCHANGED <<ips, nextIpId, ops, faults, typeVars>>

\* ip_manager.find(type_id=t) followed by IP.find_by_type(t): pre holds the
\* first list, post the second.
CatalogByType ==
    \E t \in 1..MaxTypeId, failAt \in FailPoints :
       LET f == Find(IPGateway(failAt), [type_id |-> t])
           g == IPFindByType(f.ctx, t)
       IN /\ ilast' = ILast("find_by_type", t, TRUE, f.val, g.val,
                            g.ctx.writes, <<>>, FALSE, Faulted(g.ctx))
          /\ UNCHANGED <<ips, nextIpId, ops, faults, typeVars>>

\* ip_manager.find_by_type_tree(name, include): id holds the node the name
\* resolved to, post the list returned.
CatalogTypeTree ==
    \E name \in Names, include \in BOOLEAN, failAt \in FailPoints,
       pick \in DOMAIN types \cup {NULL} :
       /\ pick = NULL => \A i \in DOMAIN types : types[i].name # name
       /\ pick # NULL => types[pick].name = name
       /\ LET q == TypeTreeEntities(Gateway(failAt), name, pick, include)
          IN ilast' = ILast("find_by_type_tree", q.node, q.node # NULL,
                            <<include>>, q.val, 0, <<>>, FALSE, Faulted(q.ctx))
       /\ UNCHANGED <<ips, nextIpId, ops, faults, typeVars>>

NextCatalog ==
    \/ TypeCreate
    \/ TypeModify
    \/ TypeRemove
    \/ IPCreateTyped
    \/ CatalogByType
    \/ CatalogTypeTree

SpecCatalog == InitReliable /\ [][NextCatalog]_vars

NextSearch ==
    \/ IPCreate
    \/ IPSearch

SpecSearch == Init /\ [][NextSearch]_vars

\* ------------------------------------------- two callers on one entity

\* The name of the entity both callers work on.
RaceName == <<"a">>

\* The fields update is given: none of them is the status.
RaceUpdates ==
    {[name |-> <<"b">>], [type_id |-> 2], [name |-> <<"b">>, type_id |-> 2]}

\* A caller's position: before its find_by_name ("start"), holding the
\* object it loaded ("loaded"), or returned ("done", with its result).
Caller(pc, obj, ok) == [pc |-> pc, obj |-> obj, ok |-> ok]

\* The two calls in flight: release(RaceName) and update(RaceName, fields).
\* overlap records that one caller read the entity while the other held
\* an object it had not written yet.
Race(rel, upd, fields, overlap) ==
    [op |-> "race", rel |-> rel, upd |-> upd, fields |-> fields,
     overlap |-> overlap]

\* One persisted entity in any status, and the two calls about to run.
InitRace ==
    /\ types = <<>>
    /\ nextTypeId = 1
    /\ tlast = Last("none", NULL, FALSE, NULL, {}, <<>>, FALSE, FALSE)
    /\ \E status \in IP_STATUSES :
          ips = <<[IPTyped(RaceName, 1) EXCEPT !.id = 1, !.status = status]>>
    /\ nextIpId = 2
    /\ ops = 0
    /\ faults = TRUE
    /\ \E fields \in RaceUpdates :
          ilast = Race(Caller("start", <<>>, FALSE),
                       Caller("start", <<>>, FALSE), fields, FALSE)

\* The find_by_name of a caller: the object loaded, or a return of False.
Load(failAt, pick) ==
    LET f == IPFindByName(IPGateway(failAt), RaceName, pick)
    IN IF f.val = <<>> THEN Caller("done", <<>>, FALSE)
       ELSE Caller("loaded", f.val, FALSE)

\* ip_manager.release(name), up to the return of IP.find_by_name
ReleaseRead ==
    \E failAt \in FailPoints, pick \in {NULL} \cup DOMAIN ips :
       /\ ilast.op = "race"
       /\ ilast.rel.pc = "start"
       /\ IsPick(pick, RaceName)
       /\ ilast' = [ilast EXCEPT !.rel = Load(failAt, pick),
                                 !.overlap = @ \/ ilast.upd.pc = "loaded"]
       /\ UNCHANGED <<ips, nextIpId, ops, faults, typeVars>>

\* ip_manager.release(name), from ip.release() to its return
ReleaseWrite ==
    \E failAt \in FailPoints :
       /\ ilast.op = "race"
       /\ ilast.rel.pc = "loaded"
       /\ LET s == Release(IPGateway(failAt), ilast.rel.obj[1])
          IN /\ ips' = s.ctx.ips
             /\ ilast' = [ilast EXCEPT !.rel = Caller("done", <<s.obj>>, s.ok)]
       /\ UNCHANGED <<nextIpId, ops, faults, typeVars>>

\* ip_manager.update(name, **fields), up to the return of IP.find_by_name
UpdateRead ==
    \E failAt \in FailPoints, pick \in {NULL} \cup DOMAIN ips :
       /\ ilast.op = "race"
       /\ ilast.upd.pc = "start"
       /\ IsPick(pick, RaceName)
       /\ ilast' = [ilast EXCEPT !.upd = Load(failAt, pick),
                                 !.overlap = @ \/ ilast.rel.pc = "loaded"]
       /\ UNCHANGED <<ips, nextIpId, ops, faults, typeVars>>

\* ip_manager.update(name, **fields), from the setattr loop to its return
UpdateWrite ==
    \E failAt \in FailPoints :
       /\ ilast.op = "race"
       /\ ilast.upd.pc = "loaded"
       /\ LET s == IPSave(IPGateway(failAt),
                          ApplyUpdates(ilast.upd.obj[1], ilast.fields))
          IN /\ ips' = s.ctx.ips
             /\ ilast' = [ilast EXCEPT !.upd = Caller("done", <<s.obj>>, s.ok)]
       /\ UNCHANGED <<nextIpId, ops, faults, typeVars>>

NextRace ==
    \/ ReleaseRead
    \/ ReleaseWrite
    \/ UpdateRead
    \/ UpdateWrite

SpecRace == InitRace /\ [][NextRace]_vars

\* ----------------------------------------------------------------- claims

\* Row i of the table has the path and level its parent reference gives it.
PathOk(table, i) ==
    LET r == table[i]
    IN IF r.parent_id \in DOMAIN table
       THEN /\ r.path = table[r.parent_id].path \o <<"/">> \o r.name
            /\ r.level = table[r.parent_id].level + 1
       ELSE /\ r.path = r.name
            /\ r.level = 0

RECURSIVE Below(_, _)
\* The rows reached from the set S by following parent_id downwards n times.
Below(S, n) ==
    IF n = 0 THEN S
    ELSE Below(S \cup {i \in DOMAIN types : types[i].parent_id \in S}, n - 1)

\* The descendants of row id: its children, their children, ...
TreeDescendants(id) ==
    Below({i \in DOMAIN types : types[i].parent_id = id},
          Cardinality(DOMAIN types))

\* No persisted node is its own ancestor.
Acyclic == \A i \in DOMAIN types : i \notin TreeDescendants(i)

\* The last operation was a save of a persisted node that changed its
\* parent_id and returned True.
Reparented ==
    /\ tlast.op = "save"
    /\ tlast.ok
    /\ tlast.id \in DOMAIN types
    /\ types[tlast.id].parent_id # tlast.old

\* C1: after a save that changed a persisted node's parent_id and returned
\* True, every descendant of the node has path = its parent's path + "/" +
\* its name and level = its parent's level + 1 (stated on trees in which no
\* node is its own ancestor).
C1_CascadeComplete ==
    (Reparented /\ Acyclic) => \A d \in TreeDescendants(tlast.id) : PathOk(types, d)

\* C2: every persisted node has path = parent.path + "/" + name and level =
\* parent.level + 1 when its parent_id resolves, and path = name, level = 0
\* otherwise (stated on trees in which no node is its own ancestor).
C2_MaterializedPath == Acyclic => \A i \in DOMAIN types : PathOk(types, i)

\* C4: after delete(n) returned True, n is not persisted, every former
\* child of n has n's parent_id as its parent_id, and no row refers to n.
C4_NoOrphans ==
    (tlast.op = "delete" /\ tlast.ok) =>
        /\ tlast.id \notin DOMAIN types
        /\ \A k \in tlast.kids :
              k \in DOMAIN types => types[k].parent_id = tlast.old
        /\ \A i \in DOMAIN types : types[i].parent_id # tlast.id

\* The persisted rows whose path begins with the literal path of row id
\* followed by "/".
PrefixRows(id) ==
    {i \in DOMAIN types : StartsWith(types[i].path, types[id].path \o <<"/">>)}

\* C5: find_descendants(n) on a persisted node with a non-empty path returns
\* exactly the rows whose path begins with n.path + "/", each once, in
\* ascending path order.
C5_DescendantsExact ==
    (tlast.op = "find_descendants" /\ ~tlast.fault
       /\ types[tlast.id].path # <<>>) =>
        /\ Range(tlast.res) = PrefixRows(tlast.id)
        /\ Len(tlast.res) = Cardinality(PrefixRows(tlast.id))
        /\ \A i \in 1..(Len(tlast.res) - 1) :
              ~StrLess(types[tlast.res[i + 1]].path, types[tlast.res[i]].path)

\* C7: after save(n) returned True, n's row has path = parent.path + "/" +
\* name and level = parent.level + 1 when its parent_id resolves to a
\* persisted node, and path = name, level = 0 otherwise.
C7_SavePostcondition ==
    (tlast.op \in {"create", "save"} /\ tlast.ok) =>
        /\ tlast.id \in DOMAIN types
        /\ PathOk(types, tlast.id)

\* The persisted rows whose path matches the pattern find_descendants binds
\* for row id.
LikeRows(id) ==
    {i \in DOMAIN types :
       LikeMatch(types[id].path \o <<"/", "%">>, types[i].path)}

\* The last operation was a find_by_type_tree that sent its entity query.
TreeQueried == tlast.op = "find_by_type_tree" /\ tlast.ok

\* C6: find_by_type_tree binds the resolved node's id followed by the ids
\* find_descendants returned, nothing else and none missing, when descendants
\* are included, and the resolved node's id alone when they are not.
C6_TypeTreeBinding ==
    TreeQueried =>
        /\ tlast.id \in DOMAIN types
        /\ Len(tlast.res) >= 1
        /\ tlast.res[1] = tlast.id
        /\ IF tlast.flag
           THEN /\ Range(Tail(tlast.res)) = tlast.kids
                /\ Len(tlast.res) = 1 + Cardinality(tlast.kids)
                /\ ~tlast.fault => tlast.kids = LikeRows(tlast.id)
           ELSE tlast.res = <<tlast.id>>

\* A node with two descendants was searched with its descendants: three
\* identifiers bound.
C6_Witness ==
    /\ TreeQueried
    /\ tlast.flag
    /\ ~tlast.fault
    /\ Len(tlast.res) = 3
    /\ Cardinality(tlast.kids) = 2

RECURSIVE IPBelow(_, _)
\* The entities reached from the set S by following parent_ip_id downwards
\* n times.
IPBelow(S, n) ==
    IF n = 0 THEN S
    ELSE IPBelow(S \cup {i \in DOMAIN ips : ips[i].parent_ip_id \in S}, n - 1)

\* The strict descendants of entity id: its children, their children, ...
IPDescendantsOf(id) ==
    IPBelow({i \in DOMAIN ips : ips[i].parent_ip_id = id},
            Cardinality(DOMAIN ips))

\* The persisted ancestors of entity id.
IPAncestorsOf(id) == {a \in DOMAIN ips : id \in IPDescendantsOf(a)}

\* No persisted entity is its own ancestor.
IPAcyclic == \A i \in DOMAIN ips : i \notin IPDescendantsOf(i)

\* C3: every persisted entity's status is one of alpha, beta, production,
\* obsolete, whatever IP construction, save, update_status, release and
\* IPManager.update were called with.
C3_StatusValid == \A i \in DOMAIN ips : ips[i].status \in IP_STATUSES

\* The last operation was a get_all_descendants that the storage gateway
\* answered, on a hierarchy without a parent cycle.
DescendantsListed ==
    /\ ilast.op = "get_all_descendants"
    /\ ~ilast.fault
    /\ IPAcyclic

\* C8: on an acyclic hierarchy get_all_descendants(n) returns every strict
\* descendant of n once, n excluded, in pre-order: the whole subtree of an
\* entity directly follows it, and siblings come in name order.
C8_PreOrder ==
    DescendantsListed =>
        LET res == ilast.res
            all == IPDescendantsOf(ilast.id)
        IN /\ ~ilast.diverged
           /\ Range(res) = all
           /\ Len(res) = Cardinality(all)
           /\ ilast.id \notin Range(res)
           /\ \A i \in 1..Len(res) :
                LET sub == IPDescendantsOf(res[i])
                IN /\ i + Cardinality(sub) <= Len(res)
                   /\ {res[j] : j \in (i + 1)..(i + Cardinality(sub))} = sub
           /\ \A i, j \in 1..Len(res) :
                (i < j /\ ips[res[i]].parent_ip_id = ips[res[j]].parent_ip_id)
                   => ~StrLess(ips[res[j]].name, ips[res[i]].name)

\* The last operation was a get_root_ancestor on an entity whose parent
\* chain has no cycle.
RootAsked ==
    /\ ilast.op = "get_root_ancestor"
    /\ LET n == ilast.pre[1]
       IN \A a \in ({n.id} \cup {n.parent_ip_id}) \cap DOMAIN ips :
             /\ a \notin IPDescendantsOf(a)
             /\ \A b \in IPAncestorsOf(a) : b \notin IPDescendantsOf(b)

\* The entity get_root_ancestor returned is the one it was called on or one
\* of its ancestors.
RootOnChain ==
    LET n == ilast.pre[1]
        r == ilast.post[1]
    IN \/ r = n
       \/ /\ r.id \in DOMAIN ips
          /\ r = ips[r.id]
          /\ \/ r.id = n.parent_ip_id
             \/ n.parent_ip_id \in IPDescendantsOf(r.id)

\* C9 as claimed: on a chain without a cycle get_root_ancestor(n) ends and
\* returns n or an ancestor of n, and the entity returned has no parent link.
C9_RootHasNoParent ==
    RootAsked =>
        /\ ~ilast.diverged
        /\ RootOnChain
        /\ ilast.post[1].parent_ip_id = NULL

\* get_parent() of the entity r returns None: no row has the id of its parent
\* link, or from_dict raises on that row.
ParentUnloadable(r) ==
    \/ r.parent_ip_id \notin DOMAIN ips
    \/ ~Loadable(ips[r.parent_ip_id])

\* C9 as amended: on a chain without a cycle get_root_ancestor(n) ends and
\* returns n or an ancestor of n; the entity returned has no parent link, or
\* its parent could not be loaded (no such row, a row that fails the status
\* check, or a gateway call that raised).
C9_RootOrUnloadableParent ==
    RootAsked =>
        /\ ~ilast.diverged
        /\ RootOnChain
        /\ \/ ilast.post[1].parent_ip_id = NULL
           \/ ParentUnloadable(ilast.post[1])
           \/ ilast.fault

\* get_root_ancestor climbed two parent links to an entity without a parent.
C9_Witness ==
    /\ RootAsked
    /\ ~ilast.fault
    /\ ilast.pre[1].parent_ip_id \in DOMAIN ips
    /\ ips[ilast.pre[1].parent_ip_id].parent_ip_id = ilast.post[1].id
    /\ ilast.post[1].id \in DOMAIN ips
    /\ ilast.post[1].parent_ip_id = NULL

\* C10: add_child on a parent without an id returns False, makes no storage
\* write, and leaves the child's parent_ip_id as it was in the object and in
\* the table.
C10_AddChildUnpersistedParent ==
    [][(ilast'.op = "add_child" /\ ilast'.id = NULL) =>
          /\ ~ilast'.ok
          /\ ilast'.writes = 0
          /\ ilast'.post = ilast'.pre
          /\ ips' = ips
          /\ nextIpId' = nextIpId]_vars

\* add_child was called on an unsaved parent with a persisted child that has
\* a parent link.
C10_Witness ==
    /\ ilast.op = "add_child"
    /\ ilast.id = NULL
    /\ ~ilast.ok
    /\ ilast.pre[1].id \in DOMAIN ips
    /\ ilast.pre[1].parent_ip_id # NULL

\* The last operation was a remove_child whose child was not a child of the
\* parent: it had no parent link, or a link to another id.
RemoveNonMatching ==
    /\ ilast.op = "remove_child"
    /\ \/ ilast.pre[1].parent_ip_id = NULL
       \/ ilast.pre[1].parent_ip_id # ilast.id

\* C11: remove_child on a child that is not a child of the parent (a child
\* without a parent link included, the parent persisted or not) returns
\* False, makes no storage write and leaves the child's link as it was.
C11_RemoveChildNonMatching ==
    RemoveNonMatching =>
        /\ ~ilast.ok
        /\ ilast.writes = 0
        /\ ilast.post = ilast.pre

\* C19: in every reachable state no persisted node is its own ancestor:
\* following parent_id from any node ends at a node without a parent.
C19_TreeAcyclic == \A i \in DOMAIN types : i \notin TreeDescendants(i)

\* C20: when the storage gateway raised during a Type operation, the
\* operation returned its failure value: False for save and delete, the
\* empty list for find_descendants.
C20_FailureValue ==
    tlast.fault =>
        /\ tlast.op \in {"create", "save", "delete"} => ~tlast.ok
        /\ tlast.op = "find_descendants" => tlast.res = <<>>

UpdatableFields ==
    {"name", "type_id", "process_id", "revision", "status", "provider",
     "description", "documentation"}

BindingOrder ==
    <<"type_name", "type_id", "process_name", "process_id", "fab", "node",
      "name", "status", "provider">>

\* The recognized keys of a criteria map, in binding order.
PresentKeys(criteria) ==
    SelectSeq(BindingOrder, LAMBDA k : k \in DOMAIN criteria)

\* C12: find composes one equality predicate and one bound parameter per
\* recognized criterion present, as many placeholders as parameters, the
\* parameters in the order type_name, type_id, process_name, process_id,
\* fab, node, name, status, provider, and the join of each table a
\* criterion refers to.
C12_BindingOrder ==
    ilast.op = "find" =>
        LET c == ilast.pre[1]
            q == ilast.res[1]
            present == PresentKeys(c)
        IN /\ Len(q.where) = Len(present)
           /\ Len(q.params) = Len(present)
           /\ \A i \in 1..Len(present) :
                 /\ q.params[i] = c[present[i]]
                 /\ Len(q.where[i]) = 3
                 /\ q.where[i][2] = "="
                 /\ q.where[i][3] = "%s"
           /\ \A i, j \in 1..Len(q.where) :
                 i # j => q.where[i][1] # q.where[j][1]
           /\ Cardinality({<<i, j>> \in (1..Len(q.where)) \X (1..3) :
                             q.where[i][j] = "%s"}) = Len(q.params)
           /\ ("JOIN types t ON i.type_id = t.id" \in Range(q.joins))
                 <=> (DOMAIN c \cap {"type_name", "type_id"} # {})
           /\ ("JOIN processes p ON i.process_id = p.id" \in Range(q.joins))
                 <=> (DOMAIN c \cap {"process_name", "process_id", "fab",
                                     "node"} # {})

\* find was called with type_name, process_name and status: three
\* parameters in that order, both joins.
C12_Witness ==
    /\ ilast.op = "find"
    /\ ilast.pre[1] = [type_name |-> 1, process_name |-> 2, status |-> 1]
    /\ ilast.res[1].params = <<1, 2, 1>>
    /\ Len(ilast.res[1].joins) = 2

\* C13: find composes for a criteria map the statement and parameters it
\* composes for the map restricted to the recognized keys, and an
\* unrecognized key makes no call fail.
C13_UnknownKeysIgnored ==
    ilast.op = "find" =>
        LET c == ilast.pre[1]
            known == [k \in DOMAIN c \cap Range(BindingOrder) |-> c[k]]
        IN /\ ilast.res[1] = ComposeFind(known)
           /\ ~ilast.fault => ilast.ok

\* find was called with name and the unrecognized keys revision and
\* parent_ip_id: one predicate, one parameter.
C13_Witness ==
    /\ ilast.op = "find"
    /\ ilast.ok
    /\ DOMAIN ilast.pre[1] = {"name", "revision", "parent_ip_id"}
    /\ ilast.pre[1].revision # ilast.pre[1].name
    /\ ilast.res[1].params = <<ilast.pre[1].name>>
    /\ Len(ilast.res[1].where) = 1

\* C16: constructing an IP, directly or with from_dict, with a status that
\* is none of alpha, beta, production, obsolete raises the validation error
\* and builds no object.
C16_InvalidStatusRejected ==
    (ilast.op = "construct" /\ "status" \in DOMAIN ilast.pre[1]
       /\ ilast.pre[1].status \notin {"alpha", "beta", "production", "obsolete"})
      => /\ ~ilast.ok
         /\ ilast.post = <<>>

\* from_dict was given a row with status "Alpha" and raised.
C16_Witness ==
    /\ ilast.op = "construct"
    /\ ilast.res = <<"call_from_dict">>
    /\ "status" \in DOMAIN ilast.pre[1]
    /\ ilast.pre[1].status = "Alpha"
    /\ ~ilast.ok

\* C18: for two nodes with non-empty paths a.is_ancestor_of(b) holds exactly
\* when b.is_descendant_of(a) holds, and neither call writes to storage.
C18_InversePredicates ==
    (ilast.op = "compare" /\ ilast.pre[1].a.path # <<>>
       /\ ilast.pre[1].b.path # <<>>)
      => /\ ilast.ok <=> ilast.res[1]
         /\ ilast.writes = 0

\* "a" was compared with "a/a": ancestor and descendant both hold.
C18_Witness ==
    /\ ilast.op = "compare"
    /\ ilast.pre[1].a.path = <<"a">>
    /\ ilast.pre[1].b.path = <<"a", "/", "a">>
    /\ ilast.ok
    /\ ilast.res[1]

\* The persisted rows whose path is a proper slash-segment prefix of the
\* path of row id.
SegmentPrefixRows(id) ==
    {i \in DOMAIN types :
       /\ types[i].path # <<>>
       /\ StartsWith(types[id].path, types[i].path \o <<"/">>)}

\* C17: find_ancestors(n) returns exactly the persisted nodes whose path is
\* a proper slash-segment prefix of n.path, each once, from the root down to
\* n's parent, and the empty list when n.path is empty or has one segment.
C17_AncestorsExact ==
    (tlast.op = "find_ancestors" /\ ~tlast.fault) =>
        LET res == tlast.res
            all == SegmentPrefixRows(tlast.id)
        IN /\ Range(res) = all
           /\ Len(res) = Cardinality(all)
           /\ \A i, j \in 1..Len(res) :
                 i < j => Len(types[res[i]].path) < Len(types[res[j]].path)
           /\ Len(Split(types[tlast.id].path)) <= 1 => res = <<>>

\* The nodes that were below the deleted node: its former children and
\* everything below them.
FormerDescendants ==
    tlast.kids \cup UNION {TreeDescendants(k) : k \in tlast.kids \cap DOMAIN types}

\* C22: after delete(n) returned True, every former descendant of n, at any
\* depth, has path = its parent's path + "/" + its name and level = its
\* parent's level + 1, or path = name and level = 0 when it has become a
\* root (stated on trees in which no node is its own ancestor).
C22_DeleteCascade ==
    (tlast.op = "delete" /\ tlast.ok /\ Acyclic) =>
        \A d \in FormerDescendants \cap DOMAIN types : PathOk(types, d)

\* C25: in every reachable state no entity is its own ancestor through
\* parent_ip_id links.
C25_HierarchyAcyclic == \A i \in DOMAIN ips : i \notin IPDescendantsOf(i)

\* The operations that end in IP.save.
SavingOps ==
    {"create", "add_child", "remove_child", "update_status", "update",
     "release"}

\* C26: a call whose save returned False leaves the table as it was: the
\* same rows with the same field values.
C26_FailedSaveNoChange ==
    [][(ilast'.op \in SavingOps /\ ~ilast'.ok) => ips' = ips]_vars

\* C30: when add_child or remove_child returned False, the child object's
\* parent_ip_id is what it was before the call.
C30_FailedLinkUnchanged ==
    (ilast.op \in {"add_child", "remove_child"} /\ ~ilast.ok) =>
        ilast.post[1].parent_ip_id = ilast.pre[1].parent_ip_id

\* C21: when storage failed, a lookup returns something else than what it
\* returns when no record matches (None for find_by_name and find_by_id,
\* the empty list for find; the tables are empty, so nothing ever matches).
C21_FailureDistinct ==
    (ilast.op \in {"find_by_name", "find_by_id", "find"} /\ ilast.fault) =>
        ilast.post # <<>>

\* C23: find_descendants on a node without an id, or with an empty path,
\* returns the empty list and makes no gateway call.
C23_NoStorageConsulted ==
    (/\ ilast.op = "find_descendants"
     /\ (ilast.pre[1].id = NULL \/ ilast.pre[1].path = <<>>)) =>
        (ilast.post = <<>> /\ ilast.res[1] = 0)

\* The column of the entity table an attribute is stored in.
EntityColumn(k) ==
    CASE k = "name" -> "i.name"
      [] k = "status" -> "i.status"
      [] k = "provider" -> "i.provider"
      [] k = "revision" -> "i.revision"
      [] k = "parent_ip_id" -> "i.parent_ip_id"

\* The predicates of the statement on the column of attribute k.
PredicatesOn(stmt, k) ==
    {j \in 1..Len(stmt.where) : stmt.where[j][1] = EntityColumn(k)}

\* Attribute k of the criteria restricts the search: one predicate on its
\* column, bound to the value supplied, and only rows with that value in
\* the list returned.
Restricts(k) ==
    LET c == ilast.pre[1]
        stmt == ilast.res[1]
    IN /\ Cardinality(PredicatesOn(stmt, k)) = 1
       /\ \A j \in PredicatesOn(stmt, k) : stmt.params[j] = c[k]
       /\ \A j \in 1..Len(ilast.post) : ilast.post[j][k] = c[k]

\* The last operation was a search the store answered.
Searched == ilast.op = "find" /\ ~ilast.fault

\* C24 (as stated): every flat attribute among the criteria (name, status,
\* provider, revision, parent_ip_id, ...) adds exactly one equality
\* predicate on its column, and the list returned holds only entities with
\* the supplied value in that column.
C24_FlatAttributePredicates ==
    Searched => \A k \in DOMAIN ilast.pre[1] : Restricts(k)

\* C24 (amended): name, status and provider each add exactly one equality
\* predicate and restrict the list returned; any other flat attribute among
\* the criteria adds no predicate.
C24_DirectCriteria ==
    Searched =>
        \A k \in DOMAIN ilast.pre[1] :
           IF k \in {"name", "status", "provider"} THEN Restricts(k)
           ELSE PredicatesOn(ilast.res[1], k) = {}

\* A search by name and parent_ip_id returned an entity of that name that
\* has another parent.
C24_Witness ==
    /\ Searched
    /\ DOMAIN ilast.pre[1] = {"name", "parent_ip_id"}
    /\ \E j \in 1..Len(ilast.post) :
          /\ ilast.post[j].name = ilast.pre[1].name
          /\ ilast.post[j].parent_ip_id # ilast.pre[1].parent_ip_id

\* This step asked for the entities of a type both ways, and the store
\* answered both queries.
AsksByType ==
    ilast' # ilast /\ ilast'.op = "find_by_type" /\ ~ilast'.fault

EntitiesUnder(id) ==
    OrderByName({r \in {ips[i] : i \in DOMAIN ips} :
                   r.type_id \in {id} \cup TreeDescendants(id)})

\* C28: find_by_type_tree(name, include_descendants=True), when the name
\* resolves and the store answers, returns exactly the entities whose
\* type_id is the resolved node or one of its true descendants, ordered by
\* name.
C28_TypeTreeExact ==
    [][(/\ ilast' # ilast
        /\ ilast'.op = "find_by_type_tree"
        /\ ilast'.ok
        /\ ilast'.pre[1]
        /\ ~ilast'.fault) =>
           ilast'.post = EntitiesUnder(ilast'.id)]_vars

\* Both calls have returned True.
BothSucceeded ==
    /\ ilast.op = "race"
    /\ ilast.rel.pc = "done" /\ ilast.rel.ok
    /\ ilast.upd.pc = "done" /\ ilast.upd.ok

\* The persisted entity is released and carries the fields of the update.
NothingLost ==
    /\ ips[1].status = "production"
    /\ \A f \in DOMAIN ilast.fields : ips[1][f] = ilast.fields[f]

\* C27 (as stated): when release and update of one entity run interleaved
\* and both return True, the persisted entity has status production and
\* the field values the update was given.
C27_NoLostUpdate == BothSucceeded => NothingLost

\* C27 (amended): the same holds when the two calls did not overlap, that
\* is when neither read the entity between the other's read and write.
C27_SerialNoLostUpdate == (BothSucceeded /\ ~ilast.overlap) => NothingLost

\* release ran to its end, then update renamed the entity; both returned
\* True and nothing was lost.
C27_Witness ==
    /\ BothSucceeded
    /\ ~ilast.overlap
    /\ ilast.rel.obj[1].status = "production"
    /\ ilast.upd.obj[1].name = <<"b">>
    /\ NothingLost

====
